---------------------------- MODULE Spec2Model ----------------------------
(***************************************************************************)
(* Model of the Jira API consumer: the bulk-create reconciliation          *)
(* (utils.update_input_dataframe), the three watermark extractors, the     *)
(* record normalizer (utils.generate_output_dataframe) and the two flows   *)
(* of main.py that wire them together.                                     *)
(*                                                                         *)
(* Python values are modelled as follows.                                  *)
(*   - A dict with string keys is a record; a missing key is a missing     *)
(*     field, and d.get(k, default) is Get(d, k, default).                 *)
(*   - The insertion-ordered mapping elementErrors.errors is a sequence    *)
(*     of [k, v] items.                                                    *)
(*   - A text (load_result) is a sequence of tokens; concatenation and     *)
(*     str.join are computed on those sequences.                           *)
(*   - A timestamp string is a sequence of code points, compared as        *)
(*     Python compares str: lexicographically, a proper prefix first.      *)
(*   - A dataframe cell that was never written is Unset (<<>>), a written  *)
(*     cell holding v is Cell(v) (<<v>>).                                  *)
(*   - None is the value None.                                             *)
(***************************************************************************)
EXTENDS Integers, Sequences, FiniteSets, TLC

VARIABLES
    pc,               \* position of the running script
    input_dataframe,  \* create flow: [n, summary, load_success, load_result]
    bulk_issues,      \* create flow: the payload sent to the gateway
    api_response,     \* create flow: the gateway's bulk-create response
    errors,           \* update_input_dataframe: failedElementNumber -> error
    issues,           \* update_input_dataframe: iterator [items, pos]
    index,            \* update_input_dataframe: the row the loop is at
    requests,         \* query flow: the dates sent to the gateway, in order
    responses,        \* query flow: the gateway's responses received so far
    objects_with_latest_updated_date,   \* query flow: the watermarks
    extracted,        \* query flow: the locals issues, projects, users
    output_dataframe, \* query flow: the normalized records, or NoFrame
    raised,           \* the exception that ended the script, or NoError
    arg,              \* a pure function's argument (SpecExtract, SpecNormalize)
    ret               \* a pure function's result

createVars == <<input_dataframe, bulk_issues, api_response, errors, issues, index>>

queryVars ==
    <<requests, responses, objects_with_latest_updated_date, extracted,
      output_dataframe>>

pureVars == <<arg, ret>>

vars == <<pc, createVars, queryVars, raised, pureVars>>

---------------------------------------------------------------------------
(* Bounds of the model. *)

\* Rows of the input table (main.py hard-codes a table of 10).
MaxRows == 3

\* Entries of response.errors.
MaxErrors == 2

\* Entries of response.issues.
MaxIssues == 2

\* Objects handed to an extractor (SpecExtract).
MaxObjects == 3

\* Issues in one response of the query flow.
MaxPollObjects == 2

\* Elements in each of the normalizer's three inputs (SpecNormalize).
MaxPayloads == 2

---------------------------------------------------------------------------
(* Python helpers. *)

None == [py |-> "None"]

NoError == "none"

NoFrame == << <<"none", None>> >>

Unset == <<>>

Cell(v) == <<v>>

EmptyDict == <<>>

\* dict.get(k, default)
Get(d, k, default) == IF k \in DOMAIN d THEN d[k] ELSE default

\* bool(v) for the values a field can hold: None and {} are falsy.
Truthy(v) == v # None /\ v # EmptyDict

RECURSIVE Join(_, _)
\* sep.join(parts)
Join(parts, sep) ==
    IF Len(parts) = 0 THEN <<>>
    ELSE IF Len(parts) = 1 THEN parts[1]
    ELSE parts[1] \o sep \o Join(Tail(parts), sep)

RECURSIVE StrLess(_, _)
\* a < b on str: lexicographic by code point, a proper prefix is smaller.
StrLess(a, b) ==
    IF b = <<>> THEN FALSE
    ELSE IF a = <<>> THEN TRUE
    ELSE IF a[1] < b[1] THEN TRUE
    ELSE IF a[1] > b[1] THEN FALSE
    ELSE StrLess(Tail(a), Tail(b))

\* All sequences over S of length at most k.
SeqUpTo(S, k) == UNION {[1..m -> S] : m \in 0..k}

---------------------------------------------------------------------------
(* The create flow's data: the input table, the payload, the response. *)

DigitTok(j) == <<"0", "1", "2", "3", "4", "5", "6", "7", "8", "9">>[j + 1]

\* The table of create_issues_script, cut to n rows; the two status columns
\* do not exist yet.
NewDataframe(n) ==
    [n |-> n,
     summary |-> [i \in 0..(n - 1) |-> <<"Issue ", DigitTok(i + 1)>>],
     description |-> [i \in 0..(n - 1) |-> <<"Description ", DigitTok(i + 1)>>],
     issuetype |-> [i \in 0..(n - 1) |-> <<"Task">>],
     load_success |-> [i \in 0..(n - 1) |-> Unset],
     load_result |-> [i \in 0..(n - 1) |-> Unset]]

\* JiraAPIConsumer._create_issue_data
create_issue_data(df, i, project_key) ==
    [fields |->
        [project |-> [key |-> project_key],
         summary |-> df.summary[i],
         description |->
            [content |->
                << [content |-> << [text |-> df.description[i], type |-> "text"] >>,
                    type |-> "paragraph"] >>,
             type |-> "doc",
             version |-> 1],
         issuetype |-> [name |-> df.issuetype[i]]]]

\* JiraAPIConsumer.create_bulk_issues_from_dataframe: one payload per row, in
\* row order.
BulkIssuesOf(df) == [j \in 1..df.n |-> create_issue_data(df, j - 1, "X")]

\* The key of the j-th created issue, e.g. "X-1".
IssueKey(j) == <<"X-", DigitTok(j)>>

CreatedIssues(m) == [j \in 1..m |-> [key |-> IssueKey(j)]]

Item(k, v) == [k |-> k, v |-> v]

\* Values of elementErrors.errors, an insertion-ordered mapping.
FieldErrorMaps ==
    { <<>>,
      << Item(<<"summary">>, <<"too long">>) >>,
      << Item(<<"summary">>, <<"too long">>),
         Item(<<"description">>, <<"required">>) >> }

ElementErrorsValues ==
    {[errorMessages |-> <<>>]}
        \cup {[errorMessages |-> <<>>, errors |-> m] : m \in FieldErrorMaps}

\* The gateway's response is not validated: failedElementNumber may repeat
\* and may lie outside the table.
ErrorEntries ==
    {[failedElementNumber |-> i] : i \in 0..MaxRows}
        \cup {[failedElementNumber |-> i, elementErrors |-> ee] :
                  i \in 0..MaxRows, ee \in ElementErrorsValues}

ErrorLists == SeqUpTo(ErrorEntries, MaxErrors)

IssueLists == {CreatedIssues(m) : m \in 0..MaxIssues}

\* response.json() of the bulk create: with or without either key.
BulkResponses ==
    {[errors |-> e, issues |-> i] : e \in ErrorLists, i \in IssueLists}
        \cup {[errors |-> e] : e \in ErrorLists}
        \cup {[issues |-> i] : i \in IssueLists}
        \cup {[errorMessages |-> <<>>]}

---------------------------------------------------------------------------
(* The query flow's data: tracked objects and search responses. *)

\* "09", "10", "9": under str comparison "09" < "10" < "9".
Stamps == { <<48, 57>>, <<49, 48>>, <<57>> }

ProjectP == [key |-> "P"]

User(a) == [accountId |-> a]

TrackedFields(u, p, a, r) ==
    [updated |-> u, project |-> p, assignee |-> a, reporter |-> r]

\* The project and user fields an issue may carry.
FieldVariants ==
    { <<None, None, None>>,
      <<ProjectP, None, None>>,
      <<None, User("a"), None>>,
      <<ProjectP, User("a"), User("r")>> }

TrackedObjects ==
    {[fields |-> TrackedFields(u, f[1], f[2], f[3])] :
        u \in Stamps, f \in FieldVariants}

\* The issues of the query flow's responses.
PollObjects ==
    { [fields |-> TrackedFields(<<48, 57>>, ProjectP, User("a"), User("r"))],
      [fields |-> TrackedFields(<<49, 48>>, None, None, None)] }

\* response.json() of a search: a page of issues, or a body without the key.
SearchResponses ==
    {[issues |-> l] : l \in SeqUpTo(PollObjects, MaxPollObjects)}
        \cup {[errorMessages |-> <<>>]}

\* "2021-09-01T00:00:00.000+0000"
InitialDate ==
    <<50, 48, 50, 49, 45, 48, 57, 45, 48, 49, 84, 48, 48, 58, 48, 48, 58,
      48, 48, 46, 48, 48, 48, 43, 48, 48, 48, 48>>

\* Opaque payloads handed to the normalizer.
Payloads == {[key |-> "A"], [key |-> "B"]}

---------------------------------------------------------------------------
(* utils.update_input_dataframe *)

\* Variant of ErrorMapping: the first entry with a given number wins.
ErrorMappingFirstWins(list) ==
    [k \in {list[j].failedElementNumber : j \in DOMAIN list} |->
        LET first == CHOOSE j \in DOMAIN list :
                         /\ list[j].failedElementNumber = k
                         /\ \A j2 \in DOMAIN list :
                                list[j2].failedElementNumber = k => j <= j2
        IN  list[first]]

\* {error["failedElementNumber"]: error for error in list}: the last entry
\* with a given number wins.
ErrorMapping(list) ==
    [k \in {list[j].failedElementNumber : j \in DOMAIN list} |->
        LET last == CHOOSE j \in DOMAIN list :
                        /\ list[j].failedElementNumber = k
                        /\ \A j2 \in DOMAIN list :
                               list[j2].failedElementNumber = k => j2 <= j
        IN  list[last]]

\* f"{k}: {v}"
FormatItem(it) == it.k \o <<":", " ">> \o it.v

\* "; ".join([f"{k}: {v}" for k, v in error.get("elementErrors", {})
\*                                          .get("errors", {}).items()])
ErrorMessages(error) ==
    LET items == Get(Get(error, "elementErrors", EmptyDict), "errors", EmptyDict)
    IN  Join([j \in DOMAIN items |-> FormatItem(items[j])], <<";", " ">>)

\* error_messages or "Unknown error"
OrUnknown(error_messages) ==
    IF error_messages = <<>> THEN <<"Unknown error">> ELSE error_messages

\* Variant of SetRow: only load_success is written.
SetRowSuccessOnly(df, i, success, result) ==
    [df EXCEPT !.load_success[i] = Cell(success)]

\* The two .at[index, column] assignments.
SetRow(df, i, success, result) ==
    [df EXCEPT !.load_success[i] = Cell(success),
               !.load_result[i] = Cell(result)]

\* Build the error mapping and the iterator over the issues.
Begin ==
    /\ pc = "update_input_dataframe"
    /\ errors' = ErrorMapping(Get(api_response, "errors", <<>>))
    /\ issues' = [items |-> Get(api_response, "issues", <<>>), pos |-> 0]
    /\ index' = 0
    /\ pc' = "loop"
    /\ UNCHANGED <<input_dataframe, bulk_issues, api_response>>
    /\ UNCHANGED <<queryVars, raised, pureVars>>

\* Variant of ErrorRow: the error row also takes an element from the iterator.
ErrorRowConsumingIssue ==
    /\ pc = "loop"
    /\ index < input_dataframe.n
    /\ index \in DOMAIN errors
    /\ input_dataframe' =
           SetRow(input_dataframe, index, FALSE,
                  OrUnknown(ErrorMessages(errors[index])))
    /\ issues' = [issues EXCEPT !.pos = @ + 1]
    /\ index' = index + 1
    /\ UNCHANGED <<pc, bulk_issues, api_response, errors>>
    /\ UNCHANGED <<queryVars, raised, pureVars>>

\* The row is a key of the error mapping.
ErrorRow ==
    /\ pc = "loop"
    /\ index < input_dataframe.n
    /\ index \in DOMAIN errors
    /\ input_dataframe' =
           SetRow(input_dataframe, index, FALSE,
                  OrUnknown(ErrorMessages(errors[index])))
    /\ index' = index + 1
    /\ UNCHANGED <<pc, bulk_issues, api_response, errors, issues>>
    /\ UNCHANGED <<queryVars, raised, pureVars>>

\* Variant of SuccessRow: the iterator is not advanced.
SuccessRowNoAdvance ==
    /\ pc = "loop"
    /\ index < input_dataframe.n
    /\ index \notin DOMAIN errors
    /\ issues.pos < Len(issues.items)
    /\ input_dataframe' =
           SetRow(input_dataframe, index, TRUE,
                  issues.items[issues.pos + 1].key)
    /\ index' = index + 1
    /\ UNCHANGED <<pc, bulk_issues, api_response, errors, issues>>
    /\ UNCHANGED <<queryVars, raised, pureVars>>

\* The row is no key of the error mapping and next(issues) yields an issue.
SuccessRow ==
    /\ pc = "loop"
    /\ index < input_dataframe.n
    /\ index \notin DOMAIN errors
    /\ issues.pos < Len(issues.items)
    /\ issues' = [issues EXCEPT !.pos = @ + 1]
    /\ input_dataframe' =
           SetRow(input_dataframe, index, TRUE,
                  issues.items[issues.pos + 1].key)
    /\ index' = index + 1
    /\ UNCHANGED <<pc, bulk_issues, api_response, errors>>
    /\ UNCHANGED <<queryVars, raised, pureVars>>

\* Variant of Exhausted: `continue` in place of `break`.
ExhaustedContinue ==
    /\ pc = "loop"
    /\ index < input_dataframe.n
    /\ index \notin DOMAIN errors
    /\ issues.pos >= Len(issues.items)
    /\ index' = index + 1
    /\ UNCHANGED <<pc, input_dataframe, bulk_issues, api_response, errors, issues>>
    /\ UNCHANGED <<queryVars, raised, pureVars>>

\* next(issues) raises StopIteration: break, return the table and print it.
Exhausted ==
    /\ pc = "loop"
    /\ index < input_dataframe.n
    /\ index \notin DOMAIN errors
    /\ issues.pos >= Len(issues.items)
    /\ pc' = "create_done"
    /\ UNCHANGED <<createVars, queryVars, raised, pureVars>>

\* The rows are used up: return the table and print it.
Return ==
    /\ pc = "loop"
    /\ index >= input_dataframe.n
    /\ pc' = "create_done"
    /\ UNCHANGED <<createVars, queryVars, raised, pureVars>>

---------------------------------------------------------------------------
(* The watermark extractors and the normalizer. *)

Updated(issue) == issue.fields.updated

RECURSIVE ScanLatest(_, _, _)
\* for issue in issues: if latest < updated: latest = updated
ScanLatest(list, j, latest) ==
    IF j > Len(list) THEN latest
    ELSE ScanLatest(list, j + 1,
                    IF StrLess(latest, Updated(list[j]))
                    THEN Updated(list[j]) ELSE latest)

\* Variant of LatestUpdatedDate: the last element's stamp, without the scan.
LatestIsLast(list) == Updated(list[Len(list)])

\* issues[-1].get("fields").get("updated"), then the scan.
LatestUpdatedDate(list) == ScanLatest(list, 1, Updated(list[Len(list)]))

Returns(value, watermark) ==
    [raised |-> NoError, value |-> value, watermark |-> watermark]

Raises(e) == [raised |-> e, value |-> <<>>, watermark |-> <<>>]

extract_issues_from_response(response) ==
    LET list == Get(response, "issues", <<>>)
    IN  IF list # <<>>
        THEN Returns(list, LatestUpdatedDate(list))
        ELSE Returns(list, <<>>)

RECURSIVE ProjectsOf(_)
\* project = issue.get("fields").get("project"); if project: append
ProjectsOf(list) ==
    IF list = <<>> THEN <<>>
    ELSE LET project == Get(Head(list).fields, "project", None)
         IN  (IF Truthy(project) THEN <<project>> ELSE <<>>)
                 \o ProjectsOf(Tail(list))

extract_projects_from_issues(list) ==
    IF list = <<>>
    THEN Raises("IndexError")
    ELSE Returns(ProjectsOf(list), LatestUpdatedDate(list))

UserFields == <<"assignee", "reporter", "approvals", "voter", "watcher">>

RECURSIVE UsersOfIssue(_, _)
\* for field in [...]: user = issue.get("fields").get(field); if user: append
UsersOfIssue(issue, j) ==
    IF j > Len(UserFields) THEN <<>>
    ELSE LET user == Get(issue.fields, UserFields[j], None)
         IN  (IF Truthy(user) THEN <<user>> ELSE <<>>)
                 \o UsersOfIssue(issue, j + 1)

RECURSIVE UsersOf(_)
UsersOf(list) ==
    IF list = <<>> THEN <<>>
    ELSE UsersOfIssue(Head(list), 1) \o UsersOf(Tail(list))

\* Variant of extract_users_from_issues: guards the empty input the way
\* extract_issues_from_response does.
ExtractUsersGuarded(list) ==
    IF list = <<>>
    THEN Returns(<<>>, <<>>)
    ELSE Returns(UsersOf(list), LatestUpdatedDate(list))

extract_users_from_issues(list) ==
    IF list = <<>>
    THEN Raises("IndexError")
    ELSE Returns(UsersOf(list), LatestUpdatedDate(list))

Tagged(name, list) == [j \in DOMAIN list |-> <<name, list[j]>>]

\* Variant of generate_output_dataframe: the users before the projects.
GenerateUsersFirst(issue_list, project_list, user_list) ==
    Tagged("issues", issue_list)
        \o Tagged("users", user_list)
        \o Tagged("projects", project_list)

\* The rows (OBJECT_NAME, RECORD_DATA) of the output table.
generate_output_dataframe(issue_list, project_list, user_list) ==
    Tagged("issues", issue_list)
        \o Tagged("projects", project_list)
        \o Tagged("users", user_list)

\* date_str[:10]
convert_date(date_str) ==
    SubSeq(date_str, 1, IF Len(date_str) < 10 THEN Len(date_str) ELSE 10)

---------------------------------------------------------------------------
(* main.py *)

IdleCreate ==
    /\ input_dataframe = NewDataframe(0)
    /\ bulk_issues = <<>>
    /\ api_response = EmptyDict
    /\ errors = EmptyDict
    /\ issues = [items |-> <<>>, pos |-> 0]
    /\ index = 0

IdleQuery ==
    /\ requests = <<>>
    /\ responses = EmptyDict
    /\ objects_with_latest_updated_date = EmptyDict
    /\ extracted = EmptyDict
    /\ output_dataframe = NoFrame

IdlePure ==
    /\ arg = None
    /\ ret = None

Init ==
    /\ pc = "main"
    /\ raised = NoError
    /\ IdleCreate
    /\ IdleQuery
    /\ IdlePure

\* --create-issues: create_issues_script builds its table.
RunCreateIssues ==
    /\ pc = "main"
    /\ \E n \in 0..MaxRows : input_dataframe' = NewDataframe(n)
    /\ pc' = "create_issues_script"
    /\ UNCHANGED <<bulk_issues, api_response, errors, issues, index>>
    /\ UNCHANGED <<queryVars, raised, pureVars>>

\* create_bulk_issues_from_dataframe: send one payload per row; the gateway
\* answers with some response.
CreateBulkIssues ==
    /\ pc = "create_issues_script"
    /\ bulk_issues' = BulkIssuesOf(input_dataframe)
    /\ \E r \in BulkResponses : api_response' = r
    /\ pc' = "update_input_dataframe"
    /\ UNCHANGED <<input_dataframe, errors, issues, index>>
    /\ UNCHANGED <<queryVars, raised, pureVars>>

\* --query-objects: query_objects_script sets the three watermarks.
RunQueryObjects ==
    /\ pc = "main"
    /\ objects_with_latest_updated_date' =
           [issues |-> InitialDate, projects |-> InitialDate, users |-> InitialDate]
    /\ pc' = "query_objects_script"
    /\ UNCHANGED <<requests, responses, extracted, output_dataframe>>
    /\ UNCHANGED <<createVars, raised, pureVars>>

\* Neither flag: print the fallback message.
NoOption ==
    /\ pc = "main"
    /\ pc' = "exit"
    /\ UNCHANGED <<createVars, queryVars, raised, pureVars>>

\* One gateway read: the date sent, and the response received as `name`.
GatewayRead(at, name, category, next) ==
    /\ pc = at
    /\ requests' =
           Append(requests, convert_date(objects_with_latest_updated_date[category]))
    /\ \E r \in SearchResponses :
           responses' = [k \in DOMAIN responses \cup {name} |->
                            IF k = name THEN r ELSE responses[k]]
    /\ pc' = next
    /\ UNCHANGED <<objects_with_latest_updated_date, extracted, output_dataframe>>
    /\ UNCHANGED <<createVars, raised, pureVars>>

GetIssues ==
    GatewayRead("query_objects_script", "issues_response", "issues", "got_issues")

GetProjects ==
    GatewayRead("got_issues", "projects_response", "projects", "got_projects")

GetFilteredIssues ==
    GatewayRead("got_projects", "filtered_issues_response", "users", "got_users")

\* The locals and the watermark after an extractor returned r for `name`.
Bind(name, r) ==
    /\ extracted' = [k \in DOMAIN extracted \cup {name} |->
                        IF k = name THEN r.value ELSE extracted[k]]
    /\ objects_with_latest_updated_date' =
           [objects_with_latest_updated_date EXCEPT ![name] = r.watermark]

Fail(e) ==
    /\ raised' = e
    /\ pc' = "error"

\* issues, latest = extract_issues_from_response(issues_response)
ExtractIssues ==
    /\ pc = "got_users"
    /\ Bind("issues", extract_issues_from_response(responses.issues_response))
    /\ pc' = "extracted_issues"
    /\ UNCHANGED <<requests, responses, output_dataframe>>
    /\ UNCHANGED <<createVars, raised, pureVars>>

\* An extractor called on response["issues"]: the subscript raises KeyError
\* on a missing key, the extractor may raise too.
ExtractFrom(at, response, name, result, next) ==
    /\ pc = at
    /\ IF "issues" \notin DOMAIN response
       THEN /\ Fail("KeyError")
            /\ UNCHANGED <<extracted, objects_with_latest_updated_date>>
       ELSE IF result.raised # NoError
       THEN /\ Fail(result.raised)
            /\ UNCHANGED <<extracted, objects_with_latest_updated_date>>
       ELSE /\ Bind(name, result)
            /\ pc' = next
            /\ UNCHANGED raised
    /\ UNCHANGED <<requests, responses, output_dataframe>>
    /\ UNCHANGED <<createVars, pureVars>>

\* projects, latest = extract_projects_from_issues(projects_response["issues"])
ExtractProjects ==
    ExtractFrom("extracted_issues", responses.projects_response, "projects",
                extract_projects_from_issues(responses.projects_response.issues),
                "extracted_projects")

\* users, latest = extract_users_from_issues(filtered_issues_response["issues"])
ExtractUsers ==
    ExtractFrom("extracted_projects", responses.filtered_issues_response, "users",
                extract_users_from_issues(responses.filtered_issues_response.issues),
                "extracted_users")

\* output_dataframe = generate_output_dataframe(issues, projects, users)
GenerateOutput ==
    /\ pc = "extracted_users"
    /\ output_dataframe' =
           generate_output_dataframe(extracted.issues, extracted.projects,
                                     extracted.users)
    /\ pc' = "generated"
    /\ UNCHANGED <<requests, responses, objects_with_latest_updated_date, extracted>>
    /\ UNCHANGED <<createVars, raised, pureVars>>

\* print(projects[0])
PrintFirstProject ==
    /\ pc = "generated"
    /\ IF extracted.projects = <<>>
       THEN Fail("IndexError")
       ELSE pc' = "query_done" /\ UNCHANGED raised
    /\ UNCHANGED <<createVars, queryVars, pureVars>>

Next ==
    \/ RunCreateIssues
    \/ CreateBulkIssues
    \/ Begin
    \/ ErrorRow
    \/ SuccessRow
    \/ Exhausted
    \/ Return
    \/ RunQueryObjects
    \/ GetIssues
    \/ GetProjects
    \/ GetFilteredIssues
    \/ ExtractIssues
    \/ ExtractProjects
    \/ ExtractUsers
    \/ GenerateOutput
    \/ PrintFirstProject
    \/ NoOption

Spec == Init /\ [][Next]_vars

---------------------------------------------------------------------------
(* The extractors as pure functions of one sequence of tracked objects. *)

InitExtract ==
    /\ pc = "extract"
    /\ raised = NoError
    /\ IdleCreate
    /\ IdleQuery
    /\ arg \in SeqUpTo(TrackedObjects, MaxObjects)
    /\ ret = None

Apply(at, fn, out) ==
    /\ pc = at
    /\ ret' = [fn |-> fn, out |-> out]
    /\ pc' = "applied"
    /\ UNCHANGED <<arg, raised, createVars, queryVars>>

ApplyExtractIssues ==
    Apply("extract", "extract_issues_from_response",
          extract_issues_from_response([issues |-> arg]))

ApplyExtractProjects ==
    Apply("extract", "extract_projects_from_issues",
          extract_projects_from_issues(arg))

ApplyExtractUsers ==
    Apply("extract", "extract_users_from_issues",
          extract_users_from_issues(arg))

NextExtract ==
    \/ ApplyExtractIssues
    \/ ApplyExtractProjects
    \/ ApplyExtractUsers

SpecExtract == InitExtract /\ [][NextExtract]_vars

---------------------------------------------------------------------------
(* The normalizer as a pure function of its three sequences. *)

InitNormalize ==
    /\ pc = "normalize"
    /\ raised = NoError
    /\ IdleCreate
    /\ IdleQuery
    /\ arg \in [issues : SeqUpTo(Payloads, MaxPayloads),
                projects : SeqUpTo(Payloads, MaxPayloads),
                users : SeqUpTo(Payloads, MaxPayloads)]
    /\ ret = None

ApplyGenerate ==
    Apply("normalize", "generate_output_dataframe",
          generate_output_dataframe(arg.issues, arg.projects, arg.users))

NextNormalize == ApplyGenerate

SpecNormalize == InitNormalize /\ [][NextNormalize]_vars

---------------------------------------------------------------------------
(* What the reconciliation claims speak of, stated on the response itself. *)

Rows == 0..(input_dataframe.n - 1)

ResponseErrors == Get(api_response, "errors", <<>>)

ResponseIssues == Get(api_response, "issues", <<>>)

\* Row position i is a failedElementNumber.
InErrorMapping(i) ==
    \E j \in DOMAIN ResponseErrors : ResponseErrors[j].failedElementNumber = i

\* The number of non-error rows at positions below i.
NonErrorBefore(i) == Cardinality({j \in 0..(i - 1) : ~InErrorMapping(j)})

\* Row i is a non-error row that finds the success cursor exhausted.
FindsCursorExhausted(i) ==
    ~InErrorMapping(i) /\ NonErrorBefore(i) >= Len(ResponseIssues)

\* The first truncation point, or the number of rows when there is none.
TruncationPoint ==
    IF \E i \in Rows : FindsCursorExhausted(i)
    THEN CHOOSE i \in Rows :
             FindsCursorExhausted(i) /\ \A j \in 0..(i - 1) : ~FindsCursorExhausted(j)
    ELSE input_dataframe.n

Annotated(i) ==
    input_dataframe.load_success[i] # Unset /\ input_dataframe.load_result[i] # Unset

Unannotated(i) ==
    input_dataframe.load_success[i] = Unset /\ input_dataframe.load_result[i] = Unset

Reconciled == pc = "create_done"

\* The rows that are keys of the error mapping.
ErrorRows == {i \in Rows : InErrorMapping(i)}

\* The entry of response.errors the error mapping holds for row i.
ErrorOf(i) ==
    LET j == CHOOSE j \in DOMAIN ResponseErrors :
                 /\ ResponseErrors[j].failedElementNumber = i
                 /\ \A j2 \in (j + 1)..Len(ResponseErrors) :
                        ResponseErrors[j2].failedElementNumber # i
    IN  ResponseErrors[j]

\* The field errors of an entry; none when elementErrors or its errors is absent.
PairsOf(error) ==
    IF "elementErrors" \in DOMAIN error
    THEN IF "errors" \in DOMAIN error.elementErrors
         THEN error.elementErrors.errors
         ELSE <<>>
    ELSE <<>>

RECURSIVE PairsText(_, _, _)
\* The first m pairs as "field: message", in the mapping's order, with sep
\* between two pairs.
PairsText(pairs, m, sep) ==
    IF m = 0 THEN <<>>
    ELSE (IF m = 1 THEN <<>> ELSE PairsText(pairs, m - 1, sep) \o sep)
             \o pairs[m].k \o <<":", " ">> \o pairs[m].v

ExpectedErrorResult(error, sep) ==
    IF PairsOf(error) = <<>>
    THEN <<"Unknown error">>
    ELSE PairsText(PairsOf(error), Len(PairsOf(error)), sep)

\* Row i was reached by the loop.
Reached(i) == pc \in {"loop", "create_done"} /\ i < index

ErrorRowsHave(sep) ==
    \A i \in Rows :
        (InErrorMapping(i) /\ Reached(i)) =>
            /\ input_dataframe.load_success[i] = Cell(FALSE)
            /\ input_dataframe.load_result[i] =
                   Cell(ExpectedErrorResult(ErrorOf(i), sep))

\* unannotated rows exist  <=>  more rows than `accounted`; and with exactly
\* `accounted` rows every row is annotated and every issue is consumed.
TruncatesIffMoreRowsThan(accounted) ==
    Reconciled =>
        /\ (\E i \in Rows : Unannotated(i)) <=> input_dataframe.n > accounted
        /\ input_dataframe.n = accounted =>
               /\ \A i \in Rows : Annotated(i)
               /\ issues.pos = Len(ResponseIssues)

---------------------------------------------------------------------------
(* Claims on update_input_dataframe. *)

\* C1: the success cursor has advanced exactly once per annotated row that is
\* not in the error mapping and never for an error row, and every annotated
\* non-error row i has load_success = True and load_result = the key of
\* issues[k], k the number of non-error rows at positions below i.
C1_CursorAlignment ==
    /\ issues.pos =
           Cardinality({i \in Rows :
               ~InErrorMapping(i) /\ input_dataframe.load_success[i] # Unset})
    /\ \A i \in Rows :
           (~InErrorMapping(i) /\ ~Unannotated(i)) =>
               /\ NonErrorBefore(i) < Len(ResponseIssues)
               /\ input_dataframe.load_success[i] = Cell(TRUE)
               /\ input_dataframe.load_result[i] =
                      Cell(ResponseIssues[NonErrorBefore(i) + 1].key)

\* C1 witness: the table is reconciled and a success row that follows an error
\* row took the second issue.
C1_Witness ==
    /\ Reconciled
    /\ \E i \in Rows :
           /\ ~InErrorMapping(i)
           /\ Annotated(i)
           /\ NonErrorBefore(i) = 1
           /\ \E j \in 0..(i - 1) : InErrorMapping(j)

\* C2: the returned table has the rows that were submitted, as many and in the
\* same order, and every row before the first truncation point has both
\* load_success and load_result set.
C2_RowsKeptAndPrefixAnnotated ==
    pc \in {"update_input_dataframe", "loop", "create_done"} =>
        /\ input_dataframe.n = Len(bulk_issues)
        /\ DOMAIN input_dataframe.load_success = Rows
        /\ DOMAIN input_dataframe.load_result = Rows
        /\ \A i \in Rows :
               input_dataframe.summary[i] = bulk_issues[i + 1].fields.summary
        /\ Reconciled =>
               \A i \in Rows : i < TruncationPoint => Annotated(i)

\* C2 witness: a reconciled table truncated after an error row and a success
\* row.
C2_Witness ==
    /\ Reconciled
    /\ TruncationPoint < input_dataframe.n
    /\ \E i, j \in 0..(TruncationPoint - 1) : InErrorMapping(i) /\ ~InErrorMapping(j)

C4_DocstringExample ==
    ( /\ Reconciled
      /\ "errors" \in DOMAIN api_response
      /\ api_response.errors = <<>>
      /\ "issues" \in DOMAIN api_response
      /\ Len(api_response.issues) < input_dataframe.n ) =>
        \A i \in Rows :
            IF i < Len(api_response.issues)
            THEN /\ input_dataframe.load_success[i] = Cell(TRUE)
                 /\ input_dataframe.load_result[i] = Cell(api_response.issues[i + 1].key)
            ELSE /\ input_dataframe.load_success[i] = Cell(FALSE)
                 /\ input_dataframe.load_result[i] = Cell(<<"Unknown error">>)

\* C7 as stated: a reached error row has load_success = False and load_result =
\* its "field: message" pairs in insertion order joined with ";", or
\* "Unknown error" when there are none.
C7_JoinedWithSemicolon == ErrorRowsHave(<<";">>)

\* C7 as amended: the pairs are joined with "; ", a semicolon and a space.
C7_JoinedWithSemicolonSpace == ErrorRowsHave(<<";", " ">>)

\* C7 witness: a reconciled table with a reached error row of two field errors
\* whose number occurs twice in response.errors.
C7_Witness ==
    /\ Reconciled
    /\ \E i \in Rows :
           /\ InErrorMapping(i)
           /\ Reached(i)
           /\ Len(PairsOf(ErrorOf(i))) = 2
           /\ \E j \in DOMAIN ResponseErrors :
                  /\ ResponseErrors[j].failedElementNumber = i
                  /\ ResponseErrors[j] # ErrorOf(i)

---------------------------------------------------------------------------
(* Claims on the extractors and the normalizer. *)

\* a <= b in lexical (string) order, stated by the first position where the
\* two differ.
LexLeq(a, b) ==
    \/ a = b
    \/ \E k \in 1..Len(b) :
           /\ \A j \in 1..(k - 1) : j <= Len(a) /\ a[j] = b[j]
           /\ k - 1 <= Len(a)
           /\ (k > Len(a) \/ a[k] < b[k])

\* The lexical maximum of a non-empty set of strings.
LexMax(S) == CHOOSE m \in S : \A x \in S : LexLeq(x, m)

UpdatedValues(list) == {Updated(list[j]) : j \in DOMAIN list}

\* Every reordering of a sequence.
PermutationsOf(list) ==
    {[j \in DOMAIN list |-> list[p[j]]] :
        p \in {q \in [DOMAIN list -> DOMAIN list] :
                  \A i, j \in DOMAIN list : q[i] = q[j] => i = j}}

\* The watermark the named extractor returns for a sequence.
WatermarkOf(fn, list) ==
    CASE fn = "extract_issues_from_response" ->
             extract_issues_from_response([issues |-> list]).watermark
      [] fn = "extract_projects_from_issues" ->
             extract_projects_from_issues(list).watermark
      [] fn = "extract_users_from_issues" ->
             extract_users_from_issues(list).watermark

\* C5: on a non-empty input each of the three extractors returns as watermark
\* the lexical maximum of the fields.updated values, the same for every
\* permutation of the input, ties for the maximum included.
C5_WatermarkIsLexicalMax ==
    (pc = "applied" /\ arg # <<>>) =>
        /\ ret.out.raised = NoError
        /\ ret.out.watermark = LexMax(UpdatedValues(arg))
        /\ \A q \in PermutationsOf(arg) : WatermarkOf(ret.fn, q) = ret.out.watermark

\* C5 witness: extract_users_from_issues was applied to three objects of which
\* the first two tie for the maximum and the last is smaller.
C5_Witness ==
    /\ pc = "applied"
    /\ ret.fn = "extract_users_from_issues"
    /\ Len(arg) = 3
    /\ Updated(arg[1]) = Updated(arg[2])
    /\ Updated(arg[3]) # Updated(arg[1])
    /\ LexLeq(Updated(arg[3]), Updated(arg[1]))

\* C6: the output holds len(issues) + len(projects) + len(users) records: the
\* issues tagged "issues" in input order, then the projects tagged "projects"
\* in input order, then the users tagged "users" in input order.
C6_StraightConcatenation ==
    pc = "applied" =>
        LET out == ret.out
            ni == Len(arg.issues)
            np == Len(arg.projects)
            nu == Len(arg.users)
        IN  /\ Len(out) = ni + np + nu
            /\ \A j \in 1..ni : out[j] = <<"issues", arg.issues[j]>>
            /\ \A j \in 1..np : out[ni + j] = <<"projects", arg.projects[j]>>
            /\ \A j \in 1..nu : out[ni + np + j] = <<"users", arg.users[j]>>

\* C6 witness: the normalizer was applied to issues holding one element twice,
\* to two projects out of order and to a user that is also an issue.
C6_Witness ==
    /\ pc = "applied"
    /\ arg.issues = <<[key |-> "A"], [key |-> "A"]>>
    /\ arg.projects = <<[key |-> "B"], [key |-> "A"]>>
    /\ arg.users = <<[key |-> "A"]>>

---------------------------------------------------------------------------
(* Claims on the query flow. *)

\* The named response was received with an empty page of issues.
ReturnedNoIssues(name) ==
    /\ name \in DOMAIN responses
    /\ "issues" \in DOMAIN responses[name]
    /\ responses[name].issues = <<>>

\* The named response was received with at least one issue.
ReturnedIssues(name) ==
    /\ name \in DOMAIN responses
    /\ "issues" \in DOMAIN responses[name]
    /\ responses[name].issues # <<>>

PastExtractIssues ==
    pc \in {"extracted_issues", "extracted_projects", "extracted_users",
            "generated", "query_done", "error"}

PastExtractProjects ==
    pc \in {"extracted_projects", "extracted_users", "generated", "query_done",
            "error"}

PastExtractUsers ==
    \/ pc \in {"extracted_users", "generated", "query_done"}
    \/ pc = "error" /\ "projects" \in DOMAIN extracted

EndedInErrorWithoutOutput ==
    /\ pc = "error"
    /\ raised = "IndexError"
    /\ output_dataframe = NoFrame

\* C8: a response that lacks the `issues` key is handled as one holding an
\* empty sequence; no step of the query flow fails because the key is missing.
C8_MissingKeyTolerated == raised # "KeyError"

\* C10: on an empty input extract_issues_from_response returns the empty list
\* and the empty-string watermark without an error, while
\* extract_projects_from_issues and extract_users_from_issues raise
\* IndexError, so that the query flow ends in an error with no normalized
\* output whenever the projects or the users query returned zero issues.
C10_EmptyInputHandling ==
    /\ (PastExtractIssues
            /\ Get(responses.issues_response, "issues", <<>>) = <<>>) =>
           /\ extracted.issues = <<>>
           /\ objects_with_latest_updated_date.issues = <<>>
           /\ pc = "extracted_issues" => raised = NoError
    /\ (PastExtractProjects /\ ReturnedNoIssues("projects_response")) =>
           EndedInErrorWithoutOutput
    /\ (PastExtractUsers /\ ReturnedNoIssues("filtered_issues_response")) =>
           EndedInErrorWithoutOutput
    /\ output_dataframe # NoFrame =>
           /\ ReturnedIssues("projects_response")
           /\ ReturnedIssues("filtered_issues_response")

\* C10 witness: the issues query returned nothing and was extracted to the
\* empty list, the projects query returned issues, the users query returned
\* none, and the flow ended with IndexError.
C10_Witness ==
    /\ pc = "error"
    /\ raised = "IndexError"
    /\ ReturnedNoIssues("issues_response")
    /\ extracted.issues = <<>>
    /\ ReturnedIssues("projects_response")
    /\ "projects" \in DOMAIN extracted
    /\ ReturnedNoIssues("filtered_issues_response")

===========================================================================
